---- MODULE Spec2Model ----
(***************************************************************************)
(* go-transcode: hlsvod.TranscodeSegments (src/hlsvod/transcode.go) and    *)
(* the cmdgroup process-group helpers (src/unnamed/part_000 for POSIX,     *)
(* src/internal/utils/cmdgroup/platform_windows.go for Windows).           *)
(*                                                                         *)
(* Spec      one call of TranscodeSegments together with the encoder       *)
(*           process, its pipes, the three goroutines and the caller.      *)
(* FairSpec  Spec plus the fairness the Go scheduler and the kernel give.  *)
(* AbandonSpec  FairSpec with a caller that stops receiving once it has    *)
(*           cancelled ctx.                                                *)
(* KillSpec  a client of cmdgroup.Configure / cmdgroup.Kill.               *)
(* BuildSpec the call up to exec.CommandContext: the argument vector over  *)
(*           many configs and probe results.                               *)
(***************************************************************************)
EXTENDS Integers, Sequences, FiniteSets, TLC

(* ----------------------------- bounds -------------------------------- *)
\* lines the encoder writes to its stdout in one run
MaxLines == 2
\* lines the encoder writes to its stderr in one run
MaxErrLines == 1
\* len(config.SegmentTimes) ranges over 0..MaxSegTimes
MaxSegTimes == 2
\* capacity of the bufio.Scanner buffer, in stream symbols
ScanBufSize == 4
\* cmdgroup.Kill calls one client makes
MaxKills == 2
\* len(config.SegmentTimes) ranges over 0..MaxTimes where only the
\* argument vector is looked at (BuildSpec)
MaxTimes == 3
\* VideoProfile.Width and .Height range over 1..MaxDim in BuildSpec
MaxDim == 2

(* ------------------------ program constants -------------------------- *)
\* transcode.go:121  if totalSegments < 2
MinSegTimes == 2
\* transcode.go:244  wg.Add(2)
WgInit == 2
\* transcode.go:246  make(chan string, 1)
ChanCap == 1

(* ------------------- the stdout byte stream -------------------------- *)
(* "-segment_list pipe:1 -segment_list_type flat" (transcode.go:225-226)   *)
(* makes the encoder write one newline-terminated name per segment.  The   *)
(* stream is a sequence of symbols: NL is the newline, and the text of the *)
(* k-th line is the two symbols 2k-1, 2k, so that a cut inside a line is   *)
(* different from the line.                                                *)
NL == 0

Line(k) == <<2 * k - 1, 2 * k>>

Wire(k) == Line(k) \o <<NL>>

\* the lines the encoder has written so far, in order
WrittenLines(n) == [k \in 1..n |-> Line(k)]

IsPrefix(s, t) ==
    /\ Len(s) <= Len(t)
    /\ \A i \in 1..Len(s) : s[i] = t[i]

Min(a, b) == IF a <= b THEN a ELSE b

\* index of the first newline of data, 0 when there is none
FirstNL(data) ==
    IF \E i \in 1..Len(data) : data[i] = NL
    THEN CHOOSE i \in 1..Len(data) :
             /\ data[i] = NL
             /\ \A j \in 1..(i - 1) : data[j] # NL
    ELSE 0

(* bufio.ScanLines, the split function of the scanners of transcode.go:256 *)
(* and :270: a token is the text before the first newline; at end of input *)
(* (or after any read error: Scanner.Scan passes atEOF = (err != nil)) the *)
(* unterminated rest is a token too.                                       *)
ScanLines(data, atEOF) ==
    IF FirstNL(data) > 0
    THEN [has |-> TRUE, advance |-> FirstNL(data),
          token |-> SubSeq(data, 1, FirstNL(data) - 1)]
    ELSE IF atEOF /\ Len(data) > 0
    THEN [has |-> TRUE, advance |-> Len(data), token |-> data]
    ELSE [has |-> FALSE, advance |-> 0, token |-> <<>>]

(* ------------------- the ffmpeg argument vector ---------------------- *)
(* A string is a sequence of pieces, a piece being a literal text or a    *)
(* formatted number; concatenation of strings is \o.  Times are integers  *)
(* in thirds of a microsecond, so that "%.6f" has to round.               *)
Text(s) == <<[s |-> s, n |-> 0]>>
Num(f, x) == <<[s |-> f, n |-> x]>>

Abs(x) == IF x < 0 THEN 0 - x ELSE x

\* fmt.Sprintf("%.6f", t): the sign, and t rounded to whole microseconds
Sprintf6f(t) ==
    Num(IF t < 0 THEN "-%.6f" ELSE "%.6f", (2 * Abs(t) + 3) \div 6)

\* fmt.Sprintf("%d", x) and fmt.Sprintf("%dk", x)
Sprintfd(x) == Num("%d", x)
Sprintfdk(x) == Num("%d", x) \o Text("k")

\* strings.Join(elems, ",")
RECURSIVE Join(_)
Join(elems) ==
    IF elems = <<>> THEN <<>>
    ELSE IF Len(elems) = 1 THEN elems[1]
    ELSE elems[1] \o Text(",") \o Join(Tail(elems))

\* transcode.go:71-116: the pixel formats is422Format lists
Formats422 ==
    {"yuv422p", "yuv422p10le", "yuv422p12le", "yuv422p16le", "yuv422p9le",
     "yuv422p10be", "yuv422p12be", "yuv422p16be", "yuv422p9be",
     "yuv422p14le", "yuv422p14be", "yuyv422", "uyvy422", "yuvj422p",
     "yuva422p", "yuva422p9le", "yuva422p9be", "yuva422p10le",
     "yuva422p10be", "yuva422p12le", "yuva422p12be", "yuva422p16le",
     "yuva422p16be", "v210", "v216", "p210le", "p210be", "p216le",
     "p216be"}

\* is422Format with the plain yuv422p entry missing from its list
is422Format_NoPlain(pixelFormat) == pixelFormat \in Formats422 \ {"yuv422p"}

\* transcode.go:71-116
is422Format(pixelFormat) == pixelFormat \in Formats422

\* pixel formats a probe may report that is422Format does not list; ""
\* is what json.Unmarshal leaves when the stream has no pix_fmt
OtherFormats == {"", "yuv420p", "yuv444p", "yuv422", "YUV422P"}

\* transcode.go:44-69 detectVideoFormat, on what ffprobe did: whether it
\* ran with exit status 0, whether its output is JSON of the expected
\* shape, and the pix_fmt of the streams it lists
detectVideoFormat(p) ==
    IF ~p.runOk THEN [pixelFormat |-> "", err |-> "failed to run ffprobe"]
    ELSE IF ~p.jsonOk
    THEN [pixelFormat |-> "", err |-> "failed to parse ffprobe output"]
    ELSE IF Len(p.streams) = 0
    THEN [pixelFormat |-> "", err |-> "no video streams found"]
    ELSE [pixelFormat |-> p.streams[1], err |-> "nil"]

\* the three ways ffprobe fails, and a probe that lists the given streams
ProbeRunError == [runOk |-> FALSE, jsonOk |-> FALSE, streams |-> <<>>]
ProbeParseError == [runOk |-> TRUE, jsonOk |-> FALSE, streams |-> <<>>]
ProbeNoStreams == [runOk |-> TRUE, jsonOk |-> TRUE, streams |-> <<>>]
ProbeOk(streams) == [runOk |-> TRUE, jsonOk |-> TRUE, streams |-> streams]
ProbeFailures == {ProbeRunError, ProbeParseError, ProbeNoStreams}

(* ------------------------------ state -------------------------------- *)
VARIABLES
    \* TranscodeConfig: len(config.SegmentTimes), config.VideoProfile != nil
    nSegTimes, hasVideo,
    \* TranscodeConfig: SegmentTimes (in thirds of a microsecond), the
    \* VideoProfile, AudioProfile != nil, the AudioProfile, SegmentOffset;
    \* and what ffprobe does when it is run on the input file
    SegmentTimes, VideoProfile, hasAudio, AudioProfile, SegmentOffset, probe,
    \* the argument vector handed to exec.CommandContext
    args,
    \* TranscodeSegments itself: its position, its return value (segments
    \* non-nil, err non-nil), ffprobe runs, the err of cmd.Start
    pcMain, ret, probeRuns, startErr,
    \* segments (made, buffered values, closed) and the WaitGroup counter
    chanMade, chan, chanClosed, wg,
    \* the stdout goroutine: position, scanner.Text(), scanner buffer and
    \* the scanner's sticky error ("none", "eof", "closed")
    pcOut, tok, buf, scanErr,
    \* the stderr goroutine and the cmd.Wait goroutine
    pcErr, pcWait,
    \* the two pipes: unread stdout symbols, unread stderr lines, whether
    \* the parent still holds the write ends, whether it closed the read ends
    outPipe, errPipe, parentHoldsW, parentPipesClosed,
    \* the process tree: the direct child ("none", "running", "zombie",
    \* "reaped"), how it ended, one descendant ("none", "alive", "gone"),
    \* and how many lines the encoder wrote to stdout / stderr
    child, exitStatus, desc, nWritten, nErrWritten,
    \* the caller: ctx cancelled, the values received from the channel
    cancelled, received,
    \* the cmdgroup client: build variant, Configure called, the pid taken
    \* over by an unrelated process, that process ("none", "alive",
    \* "dead"), the client itself alive, and the record of
    \* the Kill calls that have returned
    platform, configured, pidReused, stranger, callerAlive, killLog

cfgVars == <<nSegTimes, hasVideo, SegmentTimes, VideoProfile, hasAudio,
             AudioProfile, SegmentOffset, probe>>
mainVars == <<pcMain, ret, probeRuns, startErr, args>>
chanVars == <<chanMade, chan, chanClosed, wg>>
outVars == <<pcOut, tok, buf, scanErr>>
taskVars == <<pcErr, pcWait>>
pipeVars == <<outPipe, errPipe, parentHoldsW, parentPipesClosed>>
procVars == <<child, exitStatus, desc, nWritten, nErrWritten>>
callerVars == <<cancelled, received>>
killVars == <<platform, configured, pidReused, stranger, callerAlive,
              killLog>>
orchVars == <<cfgVars, mainVars, chanVars, outVars, taskVars, callerVars>>
vars == <<orchVars, pipeVars, procVars, killVars>>

(* ------------- TranscodeSegments: building the arguments ------------- *)
\* config.InputFilePath, and path.Join(config.OutputDirPath,
\* "<SegmentPrefix>-%05d.ts") of transcode.go:227: opaque texts
InputFilePath == Text("input.mkv")
OutputPattern == Text("out/seg-%05d.ts")

\* transcode.go:126-130
startAt == SegmentTimes[1]
endAt == SegmentTimes[Len(SegmentTimes)]

\* transcode.go:133-139
fmtSegTimes == [i \in 1..Len(SegmentTimes) |-> Sprintf6f(SegmentTimes[i])]

\* transcode.go:140 with the whole list joined, first boundary included
commaSeparatedSegTimes_All == Join(fmtSegTimes)

\* transcode.go:140  strings.Join(fmtSegTimes[1:], ",")
commaSeparatedSegTimes == Join(Tail(fmtSegTimes))

\* the seek written for a first boundary of zero as well
SeekArgs_FromZero ==
    IF startAt >= 0 THEN <<Text("-ss"), Sprintf6f(startAt)>> ELSE <<>>

\* transcode.go:149-153
SeekArgs ==
    IF startAt > 0 THEN <<Text("-ss"), Sprintf6f(startAt)>> ELSE <<>>

\* transcode.go:156-162
InputArgs ==
    <<Text("-i"), InputFilePath,
      Text("-to"), Sprintf6f(endAt),
      Text("-copyts"),
      Text("-force_key_frames"), commaSeparatedSegTimes,
      Text("-sn")>>

\* transcode.go:164-180: false unless the probe ran and succeeded
useHigh422Profile ==
    /\ hasVideo
    /\ detectVideoFormat(probe).err = "nil"
    /\ is422Format(detectVideoFormat(probe).pixelFormat)

\* the scale filter with the comparison turned round
scale_Swapped ==
    IF VideoProfile.Width < VideoProfile.Height
    THEN Text("scale=-2:") \o Sprintfd(VideoProfile.Height)
    ELSE Text("scale=") \o Sprintfd(VideoProfile.Width) \o Text(":-2")

\* transcode.go:186-191
scale ==
    IF VideoProfile.Width >= VideoProfile.Height
    THEN Text("scale=-2:") \o Sprintfd(VideoProfile.Height)
    ELSE Text("scale=") \o Sprintfd(VideoProfile.Width) \o Text(":-2")

\* transcode.go:193-196
videoProfile == IF useHigh422Profile THEN "high422" ELSE "high"

\* transcode.go:183-206
VideoArgs ==
    IF hasVideo
    THEN <<Text("-vf"), scale,
           Text("-c:v"), Text("libx264"),
           Text("-preset"), Text("faster"),
           Text("-profile:v"), Text(videoProfile),
           Text("-level:v"), Text("4.0"),
           Text("-b:v"), Sprintfdk(VideoProfile.Bitrate)>>
    ELSE <<>>

\* transcode.go:209-216
AudioArgs ==
    IF hasAudio
    THEN <<Text("-c:a"), Text("aac"),
           Text("-b:a"), Sprintfdk(AudioProfile.Bitrate)>>
    ELSE <<>>

\* transcode.go:219-228
SegmentArgs ==
    <<Text("-f"), Text("segment"),
      Text("-segment_time_delta"), Text("0.2"),
      Text("-segment_format"), Text("mpegts"),
      Text("-segment_times"), commaSeparatedSegTimes,
      Text("-segment_start_number"), Sprintfd(SegmentOffset),
      Text("-segment_list_type"), Text("flat"),
      Text("-segment_list"), Text("pipe:1"),
      OutputPattern>>

\* transcode.go:142-228: args as handed to exec.CommandContext (:230)
TranscodeArgs ==
    <<Text("-loglevel"), Text("warning")>>
        \o SeekArgs \o InputArgs \o VideoArgs \o AudioArgs \o SegmentArgs

\* the value that follows the first occurrence of option opt in a
\* (<<>> when the option is absent or is the last argument)
RECURSIVE ValueOf(_, _)
ValueOf(a, opt) ==
    IF Len(a) < 2 THEN <<>>
    ELSE IF a[1] = Text(opt) THEN a[2]
    ELSE ValueOf(Tail(a), opt)

\* the positions of option opt in a
PositionsOf(a, opt) == {i \in 1..Len(a) : a[i] = Text(opt)}

\* a config a caller would pass: boundaries every two seconds from zero
NoProfile == [Width |-> 0, Height |-> 0, Bitrate |-> 0]
ConfigOf(n, video) ==
    /\ SegmentTimes = [i \in 1..n |-> (i - 1) * 6000000]
    /\ VideoProfile = IF video
                      THEN [Width |-> 1280, Height |-> 720, Bitrate |-> 2500]
                      ELSE NoProfile
    /\ hasAudio = TRUE
    /\ AudioProfile = [Bitrate |-> 128]
    /\ SegmentOffset = 0

\* some process still holds the write end of the two pipes
Writers == parentHoldsW \/ child = "running" \/ desc = "alive"

\* the processes of the encoder's tree that can still run
TreeRunnable ==
    (IF child = "running" THEN {"child"} ELSE {})
        \cup (IF desc = "alive" THEN {"desc"} ELSE {})

KillIdle ==
    /\ platform = "posix"
    /\ configured = FALSE
    /\ pidReused = FALSE
    /\ stranger = "none"
    /\ callerAlive = TRUE
    /\ killLog = <<>>

OrchIdle ==
    /\ pcMain = "idle"
    /\ ret = [ch |-> FALSE, err |-> FALSE]
    /\ probeRuns = 0
    /\ args = <<>>
    /\ startErr = FALSE
    /\ chanMade = FALSE
    /\ chan = <<>>
    /\ chanClosed = FALSE
    /\ wg = 0
    /\ pcOut = "idle"
    /\ tok = <<>>
    /\ buf = <<>>
    /\ scanErr = "none"
    /\ pcErr = "idle"
    /\ pcWait = "idle"
    /\ cancelled = FALSE
    /\ received = <<>>

ProcIdle ==
    /\ outPipe = <<>>
    /\ errPipe = 0
    /\ parentHoldsW = FALSE
    /\ parentPipesClosed = FALSE
    /\ child = "none"
    /\ exitStatus = "none"
    /\ desc = "none"
    /\ nWritten = 0
    /\ nErrWritten = 0

\* TranscodeSegments has just been called with some config
Init ==
    /\ nSegTimes \in 0..MaxSegTimes
    /\ hasVideo \in BOOLEAN
    /\ ConfigOf(nSegTimes, hasVideo)
    /\ probe \in IF hasVideo
                 THEN ProbeFailures \cup {ProbeOk(<<"yuv420p">>)}
                 ELSE {ProbeNoStreams}
    /\ pcMain = "check"
    /\ ret = [ch |-> FALSE, err |-> FALSE]
    /\ probeRuns = 0
    /\ args = <<>>
    /\ startErr = FALSE
    /\ chanMade = FALSE
    /\ chan = <<>>
    /\ chanClosed = FALSE
    /\ wg = 0
    /\ pcOut = "idle"
    /\ tok = <<>>
    /\ buf = <<>>
    /\ scanErr = "none"
    /\ pcErr = "idle"
    /\ pcWait = "idle"
    /\ cancelled = FALSE
    /\ received = <<>>
    /\ ProcIdle
    /\ KillIdle

(* ------------------- TranscodeSegments, main path -------------------- *)
\* CheckConfig with the threshold one too low: a single segment time passes
CheckConfig_OffByOne ==
    /\ pcMain = "check"
    /\ IF nSegTimes < MinSegTimes - 1
       THEN /\ pcMain' = "returned"
            /\ ret' = [ch |-> FALSE, err |-> TRUE]
       ELSE /\ pcMain' = "build"
            /\ ret' = ret
    /\ UNCHANGED <<probeRuns, args, startErr>>
    /\ UNCHANGED <<cfgVars, chanVars, outVars, taskVars, callerVars>>
    /\ UNCHANGED <<pipeVars, procVars, killVars>>

\* transcode.go:120-123
CheckConfig ==
    /\ pcMain = "check"
    /\ IF nSegTimes < MinSegTimes
       THEN /\ pcMain' = "returned"
            /\ ret' = [ch |-> FALSE, err |-> TRUE]
       ELSE /\ pcMain' = "build"
            /\ ret' = ret
    /\ UNCHANGED <<probeRuns, args, startErr>>
    /\ UNCHANGED <<cfgVars, chanVars, outVars, taskVars, callerVars>>
    /\ UNCHANGED <<pipeVars, procVars, killVars>>

\* BuildArgs with the error of detectVideoFormat handed back to the caller
BuildArgs_ProbeErrReturned ==
    /\ pcMain = "build"
    /\ probeRuns' = IF hasVideo THEN probeRuns + 1 ELSE probeRuns
    /\ IF hasVideo /\ detectVideoFormat(probe).err # "nil"
       THEN /\ args' = args
            /\ pcMain' = "returned"
            /\ ret' = [ch |-> FALSE, err |-> TRUE]
       ELSE /\ args' = TranscodeArgs
            /\ pcMain' = "stdoutPipe"
            /\ ret' = ret
    /\ UNCHANGED startErr
    /\ UNCHANGED <<cfgVars, chanVars, outVars, taskVars, callerVars>>
    /\ UNCHANGED <<pipeVars, procVars, killVars>>

\* transcode.go:125-231: the argument vector; with a video profile the
\* ffprobe process is run first (detectVideoFormat, :168) and its failure
\* is only logged (:169-170)
BuildArgs ==
    /\ pcMain = "build"
    /\ probeRuns' = IF hasVideo THEN probeRuns + 1 ELSE probeRuns
    /\ args' = TranscodeArgs
    /\ pcMain' = "stdoutPipe"
    /\ UNCHANGED <<ret, startErr>>
    /\ UNCHANGED <<cfgVars, chanVars, outVars, taskVars, callerVars>>
    /\ UNCHANGED <<pipeVars, procVars, killVars>>

\* transcode.go:233-236: cmd.StdoutPipe() (os.Pipe may fail)
StdoutPipe ==
    /\ pcMain = "stdoutPipe"
    /\ \E ok \in BOOLEAN :
        IF ok
        THEN /\ pcMain' = "stderrPipe"
             /\ parentHoldsW' = TRUE
             /\ ret' = ret
        ELSE /\ pcMain' = "returned"
             /\ parentHoldsW' = parentHoldsW
             /\ ret' = [ch |-> FALSE, err |-> TRUE]
    /\ UNCHANGED <<probeRuns, args, startErr, outPipe, errPipe, parentPipesClosed>>
    /\ UNCHANGED <<cfgVars, chanVars, outVars, taskVars, callerVars>>
    /\ UNCHANGED <<procVars, killVars>>

\* transcode.go:238-241: cmd.StderrPipe()
StderrPipe ==
    /\ pcMain = "stderrPipe"
    /\ \E ok \in BOOLEAN :
        IF ok
        THEN /\ pcMain' = "launch"
             /\ ret' = ret
        ELSE /\ pcMain' = "returned"
             /\ ret' = [ch |-> FALSE, err |-> TRUE]
    /\ UNCHANGED <<probeRuns, args, startErr>>
    /\ UNCHANGED <<cfgVars, chanVars, outVars, taskVars, callerVars>>
    /\ UNCHANGED <<pipeVars, procVars, killVars>>

\* LaunchReaders with wg.Add(1) in place of wg.Add(2)
LaunchReaders_AddOne ==
    /\ pcMain = "launch"
    /\ wg' = WgInit - 1
    /\ chanMade' = TRUE
    /\ pcOut' = "scan"
    /\ pcErr' = "scan"
    /\ pcMain' = "start"
    /\ UNCHANGED <<ret, probeRuns, args, startErr, chan, chanClosed>>
    /\ UNCHANGED <<tok, buf, scanErr, pcWait>>
    /\ UNCHANGED <<cfgVars, callerVars, pipeVars, procVars, killVars>>

\* transcode.go:243-278: the WaitGroup, the channel and the two reader
\* goroutines, all before cmd.Start
LaunchReaders ==
    /\ pcMain = "launch"
    /\ wg' = WgInit
    /\ chanMade' = TRUE
    /\ pcOut' = "scan"
    /\ pcErr' = "scan"
    /\ pcMain' = "start"
    /\ UNCHANGED <<ret, probeRuns, args, startErr, chan, chanClosed>>
    /\ UNCHANGED <<tok, buf, scanErr, pcWait>>
    /\ UNCHANGED <<cfgVars, callerVars, pipeVars, procVars, killVars>>

\* transcode.go:281: err = cmd.Start().  Start fails when ctx is already
\* done or the binary cannot be spawned; either way it closes the child's
\* pipe ends held by the parent, and on failure the parent's read ends too.
Start ==
    /\ pcMain = "start"
    /\ \E ok \in (IF cancelled THEN {FALSE} ELSE BOOLEAN) :
        IF ok
        THEN /\ child' = "running"
             /\ startErr' = FALSE
             /\ parentPipesClosed' = parentPipesClosed
        ELSE /\ child' = child
             /\ startErr' = TRUE
             /\ parentPipesClosed' = TRUE
    /\ parentHoldsW' = FALSE
    /\ pcMain' = "goWait"
    /\ UNCHANGED <<ret, probeRuns, args, outPipe, errPipe>>
    /\ UNCHANGED <<exitStatus, desc, nWritten, nErrWritten>>
    /\ UNCHANGED <<cfgVars, chanVars, outVars, taskVars, callerVars, killVars>>

\* GoWait with the cmd.Wait goroutine started only when cmd.Start succeeded
GoWait_OnlyIfStarted ==
    /\ pcMain = "goWait"
    /\ pcWait' = IF startErr THEN pcWait ELSE "wait"
    /\ pcMain' = "return"
    /\ UNCHANGED <<ret, probeRuns, args, startErr, pcErr>>
    /\ UNCHANGED <<cfgVars, chanVars, outVars, callerVars>>
    /\ UNCHANGED <<pipeVars, procVars, killVars>>

\* transcode.go:284: go func() { ... cmd.Wait() ... }
GoWait ==
    /\ pcMain = "goWait"
    /\ pcWait' = "wait"
    /\ pcMain' = "return"
    /\ UNCHANGED <<ret, probeRuns, args, startErr, pcErr>>
    /\ UNCHANGED <<cfgVars, chanVars, outVars, callerVars>>
    /\ UNCHANGED <<pipeVars, procVars, killVars>>

\* transcode.go:295: return segments, err
Return ==
    /\ pcMain = "return"
    /\ ret' = [ch |-> TRUE, err |-> startErr]
    /\ pcMain' = "returned"
    /\ UNCHANGED <<probeRuns, args, startErr>>
    /\ UNCHANGED <<cfgVars, chanVars, outVars, taskVars, callerVars>>
    /\ UNCHANGED <<pipeVars, procVars, killVars>>

(* ------------------ the stdout goroutine (:249-264) ------------------ *)
\* scanner.Scan() finds a token in what the scanner already holds
\* (transcode.go:257); scanner.Text() is the value to send
OutScanToken ==
    /\ pcOut = "scan"
    /\ ScanLines(buf, scanErr # "none").has
    /\ tok' = ScanLines(buf, scanErr # "none").token
    /\ buf' = SubSeq(buf, ScanLines(buf, scanErr # "none").advance + 1, Len(buf))
    /\ pcOut' = "send"
    /\ UNCHANGED <<scanErr>>
    /\ UNCHANGED <<cfgVars, mainVars, chanVars, taskVars, callerVars>>
    /\ UNCHANGED <<pipeVars, procVars, killVars>>

\* scanner.Scan() holds no token and must read the pipe (transcode.go:257):
\* a read of a file the parent has closed fails at once; otherwise it
\* returns what is there, up to the free buffer space, reports EOF when
\* nothing is there and no process holds the write end, and blocks else.
OutRead ==
    /\ pcOut = "scan"
    /\ ~ScanLines(buf, scanErr # "none").has
    /\ scanErr = "none"
    /\ parentPipesClosed \/ outPipe # <<>> \/ ~Writers
    /\ IF parentPipesClosed
       THEN /\ scanErr' = "closed"
            /\ UNCHANGED <<buf, outPipe>>
       ELSE IF outPipe # <<>>
       THEN /\ buf' = buf \o SubSeq(outPipe, 1,
                          Min(Len(outPipe), ScanBufSize - Len(buf)))
            /\ outPipe' = SubSeq(outPipe,
                          Min(Len(outPipe), ScanBufSize - Len(buf)) + 1,
                          Len(outPipe))
            /\ UNCHANGED scanErr
       ELSE /\ scanErr' = "eof"
            /\ UNCHANGED <<buf, outPipe>>
    /\ UNCHANGED <<pcOut, tok, errPipe, parentHoldsW, parentPipesClosed>>
    /\ UNCHANGED <<cfgVars, mainVars, chanVars, taskVars, callerVars>>
    /\ UNCHANGED <<procVars, killVars>>

\* scanner.Scan() returns false: no token left and the read has failed or
\* ended (transcode.go:257, :261-263); the deferred function runs next
OutScanEnd ==
    /\ pcOut = "scan"
    /\ ~ScanLines(buf, scanErr # "none").has
    /\ scanErr # "none"
    /\ pcOut' = "wgWait"
    /\ UNCHANGED <<tok, buf, scanErr>>
    /\ UNCHANGED <<cfgVars, mainVars, chanVars, taskVars, callerVars>>
    /\ UNCHANGED <<pipeVars, procVars, killVars>>

\* transcode.go:258: segments <- scanner.Text(), blocking while the
\* channel's buffer is full
OutSend ==
    /\ pcOut = "send"
    /\ Len(chan) < ChanCap
    /\ chan' = Append(chan, tok)
    /\ tok' = <<>>
    /\ pcOut' = "scan"
    /\ UNCHANGED <<chanMade, chanClosed, wg, buf, scanErr>>
    /\ UNCHANGED <<cfgVars, mainVars, taskVars, callerVars>>
    /\ UNCHANGED <<pipeVars, procVars, killVars>>

\* OutClose without the wg.Wait() barrier: close(segments) as soon as the
\* stdout loop ends
OutClose_NoBarrier ==
    /\ pcOut = "wgWait"
    /\ chanClosed' = TRUE
    /\ pcOut' = "done"
    /\ UNCHANGED <<chanMade, chan, wg, tok, buf, scanErr>>
    /\ UNCHANGED <<cfgVars, mainVars, taskVars, callerVars>>
    /\ UNCHANGED <<pipeVars, procVars, killVars>>

\* transcode.go:250-254: the deferred wg.Wait(); close(segments)
OutClose ==
    /\ pcOut = "wgWait"
    /\ wg = 0
    /\ chanClosed' = TRUE
    /\ pcOut' = "done"
    /\ UNCHANGED <<chanMade, chan, wg, tok, buf, scanErr>>
    /\ UNCHANGED <<cfgVars, mainVars, taskVars, callerVars>>
    /\ UNCHANGED <<pipeVars, procVars, killVars>>

(* ------------------ the stderr goroutine (:267-278) ------------------ *)
\* transcode.go:271-273: one more stderr line is scanned and logged
ErrScan ==
    /\ pcErr = "scan"
    /\ ~parentPipesClosed
    /\ errPipe > 0
    /\ errPipe' = errPipe - 1
    /\ UNCHANGED <<outPipe, parentHoldsW, parentPipesClosed>>
    /\ UNCHANGED <<orchVars, procVars, killVars>>

\* ErrEnd without the deferred wg.Done()
ErrEnd_NoDone ==
    /\ pcErr = "scan"
    /\ parentPipesClosed \/ (errPipe = 0 /\ ~Writers)
    /\ pcErr' = "done"
    /\ UNCHANGED <<chanMade, chan, chanClosed, wg, pcWait>>
    /\ UNCHANGED <<cfgVars, mainVars, outVars, callerVars>>
    /\ UNCHANGED <<pipeVars, procVars, killVars>>

\* transcode.go:271, :275-277, :268: Scan returns false (end of stream or
\* a read of the closed pipe) and the deferred wg.Done() runs
ErrEnd ==
    /\ pcErr = "scan"
    /\ parentPipesClosed \/ (errPipe = 0 /\ ~Writers)
    /\ pcErr' = "done"
    /\ wg' = wg - 1
    /\ UNCHANGED <<chanMade, chan, chanClosed, pcWait>>
    /\ UNCHANGED <<cfgVars, mainVars, outVars, callerVars>>
    /\ UNCHANGED <<pipeVars, procVars, killVars>>

(* ------------------ the cmd.Wait goroutine (:284-293) ---------------- *)
\* WaitReturn without the deferred wg.Done()
WaitReturn_NoDone ==
    /\ pcWait = "wait"
    /\ startErr \/ child = "zombie"
    /\ IF startErr
       THEN UNCHANGED <<child, parentPipesClosed>>
       ELSE /\ child' = "reaped"
            /\ parentPipesClosed' = TRUE
    /\ pcWait' = "done"
    /\ UNCHANGED <<chanMade, chan, chanClosed, wg, pcErr>>
    /\ UNCHANGED <<outPipe, errPipe, parentHoldsW>>
    /\ UNCHANGED <<exitStatus, desc, nWritten, nErrWritten>>
    /\ UNCHANGED <<cfgVars, mainVars, outVars, callerVars, killVars>>

\* cmd.Wait() returns "exec: not started" at once when Start failed; else
\* it returns once the direct child has exited, reaps it and closes the
\* parent's read ends of both pipes.  Then the deferred wg.Done() runs.
WaitReturn ==
    /\ pcWait = "wait"
    /\ startErr \/ child = "zombie"
    /\ IF startErr
       THEN UNCHANGED <<child, parentPipesClosed>>
       ELSE /\ child' = "reaped"
            /\ parentPipesClosed' = TRUE
    /\ pcWait' = "done"
    /\ wg' = wg - 1
    /\ UNCHANGED <<chanMade, chan, chanClosed, pcErr>>
    /\ UNCHANGED <<outPipe, errPipe, parentHoldsW>>
    /\ UNCHANGED <<exitStatus, desc, nWritten, nErrWritten>>
    /\ UNCHANGED <<cfgVars, mainVars, outVars, callerVars, killVars>>

(* ----------------- the encoder process and its tree ------------------ *)
\* the encoder reports one finished segment on stdout
EncWrite ==
    /\ child = "running"
    /\ nWritten < MaxLines
    /\ outPipe' = outPipe \o Wire(nWritten + 1)
    /\ nWritten' = nWritten + 1
    /\ UNCHANGED <<errPipe, parentHoldsW, parentPipesClosed>>
    /\ UNCHANGED <<child, exitStatus, desc, nErrWritten>>
    /\ UNCHANGED <<orchVars, killVars>>

\* the encoder writes a diagnostic line on stderr
EncWriteErr ==
    /\ child = "running"
    /\ nErrWritten < MaxErrLines
    /\ errPipe' = errPipe + 1
    /\ nErrWritten' = nErrWritten + 1
    /\ UNCHANGED <<outPipe, parentHoldsW, parentPipesClosed>>
    /\ UNCHANGED <<child, exitStatus, desc, nWritten>>
    /\ UNCHANGED <<orchVars, killVars>>

\* the process forks a descendant, which inherits its pipe ends and group
ProcFork ==
    /\ child = "running"
    /\ desc = "none"
    /\ desc' = "alive"
    /\ UNCHANGED <<child, exitStatus, nWritten, nErrWritten>>
    /\ UNCHANGED <<orchVars, pipeVars, killVars>>

\* the process exits by itself, with status zero or non-zero
ProcExit ==
    /\ child = "running"
    /\ \E s \in {"ok", "fail"} : exitStatus' = s
    /\ child' = "zombie"
    /\ UNCHANGED <<desc, nWritten, nErrWritten>>
    /\ UNCHANGED <<orchVars, pipeVars, killVars>>

\* the descendant exits by itself
DescExit ==
    /\ desc = "alive"
    /\ desc' = "gone"
    /\ UNCHANGED <<child, exitStatus, nWritten, nErrWritten>>
    /\ UNCHANGED <<orchVars, pipeVars, killVars>>

\* transcode.go:230: exec.CommandContext kills the direct child, and only
\* it, with os.Process.Kill when ctx is done while the command runs
CtxKill ==
    /\ cancelled
    /\ child = "running"
    /\ child' = "zombie"
    /\ exitStatus' = "killed"
    /\ UNCHANGED <<desc, nWritten, nErrWritten>>
    /\ UNCHANGED <<orchVars, pipeVars, killVars>>

(* ------------------------------ caller ------------------------------- *)
\* the caller cancels the ctx it passed to TranscodeSegments
Cancel ==
    /\ pcMain # "idle"
    /\ ~cancelled
    /\ cancelled' = TRUE
    /\ UNCHANGED <<received>>
    /\ UNCHANGED <<cfgVars, mainVars, chanVars, outVars, taskVars>>
    /\ UNCHANGED <<pipeVars, procVars, killVars>>

\* the caller receives one value from the channel it was handed
Receive ==
    /\ pcMain = "returned"
    /\ ret.ch
    /\ chan # <<>>
    /\ received' = Append(received, Head(chan))
    /\ chan' = Tail(chan)
    /\ UNCHANGED <<cancelled, chanMade, chanClosed, wg>>
    /\ UNCHANGED <<cfgVars, mainVars, outVars, taskVars>>
    /\ UNCHANGED <<pipeVars, procVars, killVars>>

(* --------------------------- specifications -------------------------- *)
Next ==
    \/ CheckConfig
    \/ BuildArgs
    \/ StdoutPipe
    \/ StderrPipe
    \/ LaunchReaders
    \/ Start
    \/ GoWait
    \/ Return
    \/ OutScanToken
    \/ OutRead
    \/ OutScanEnd
    \/ OutSend
    \/ OutClose
    \/ ErrScan
    \/ ErrEnd
    \/ WaitReturn
    \/ EncWrite
    \/ EncWriteErr
    \/ ProcFork
    \/ ProcExit
    \/ DescExit
    \/ CtxKill
    \/ Cancel
    \/ Receive

Spec == Init /\ [][Next]_vars

(* Fairness: the Go scheduler runs every goroutine that can take a step   *)
(* (the function body, the three goroutines it starts, and the goroutine  *)
(* exec.CommandContext uses to kill the child once ctx is done), and the  *)
(* caller keeps receiving.  Nothing obliges the encoder to write, to fork *)
(* or to exit, a descendant to exit, or the caller to cancel.             *)
TaskFairness ==
    /\ WF_vars(CheckConfig)
    /\ WF_vars(BuildArgs)
    /\ WF_vars(StdoutPipe)
    /\ WF_vars(StderrPipe)
    /\ WF_vars(LaunchReaders)
    /\ WF_vars(Start)
    /\ WF_vars(GoWait)
    /\ WF_vars(Return)
    /\ WF_vars(OutScanToken)
    /\ WF_vars(OutRead)
    /\ WF_vars(OutScanEnd)
    /\ WF_vars(OutSend)
    /\ WF_vars(OutClose)
    /\ WF_vars(ErrScan)
    /\ WF_vars(ErrEnd)
    /\ WF_vars(WaitReturn)
    /\ WF_vars(CtxKill)

\* ... and a caller that receives whatever is in the channel
Fairness ==
    /\ TaskFairness
    /\ WF_vars(Receive)

\* a call with a valid config and an input ffprobe cannot be run on: what
\* the config is no longer matters once the argument vector is built
FairInit ==
    Init /\ nSegTimes = MinSegTimes /\ hasVideo /\ probe = ProbeRunError

FairSpec == FairInit /\ [][Next]_vars /\ Fairness

\* AbandonSpec: the same call with a caller that receives until it cancels
\* ctx and never touches the channel afterwards
AbandonNext == Next /\ (cancelled => received' = received)

AbandonSpec ==
    /\ FairInit
    /\ [][AbandonNext]_vars
    /\ TaskFairness
    /\ WF_vars(~cancelled /\ Receive)

(* ------------------------ cmdgroup (KillSpec) ------------------------ *)
(* A client of the package: it may call Configure, starts the command,    *)
(* may Wait for it, and calls Kill at any time.  The process table is the *)
(* one above (child, desc); the pipes and the orchestrator stay idle.     *)
KillInit ==
    /\ nSegTimes = 0
    /\ hasVideo = FALSE
    /\ ConfigOf(0, FALSE)
    /\ probe = ProbeNoStreams
    /\ OrchIdle
    /\ ProcIdle
    /\ platform \in {"posix", "windows"}
    /\ configured = FALSE
    /\ pidReused = FALSE
    /\ stranger = "none"
    /\ callerAlive = TRUE
    /\ killLog = <<>>

\* cmdgroup.Configure -> platformConfigure: Setpgid (POSIX) or
\* CREATE_NEW_PROCESS_GROUP (Windows), set before cmd.Start
Configure ==
    /\ callerAlive
    /\ child = "none"
    /\ ~configured
    /\ configured' = TRUE
    /\ UNCHANGED <<platform, pidReused, stranger, callerAlive, killLog>>
    /\ UNCHANGED <<orchVars, pipeVars, procVars>>

\* the client starts the command: cmd.Process is set from here on
ClientStart ==
    /\ callerAlive
    /\ child = "none"
    /\ child' = "running"
    /\ UNCHANGED <<exitStatus, desc, nWritten, nErrWritten>>
    /\ UNCHANGED <<orchVars, pipeVars, killVars>>

\* the client's cmd.Wait() returns: the exited process is reaped and its
\* os.Process is marked done
ClientWait ==
    /\ callerAlive
    /\ child = "zombie"
    /\ child' = "reaped"
    /\ UNCHANGED <<exitStatus, desc, nWritten, nErrWritten>>
    /\ UNCHANGED <<orchVars, pipeVars, killVars>>

\* the operating system gives the reaped process's id to an unrelated
\* process.  On POSIX an id is not reused while it still names a process
\* group, i.e. while a descendant lives in the group Configure made.
PidReuse ==
    /\ child = "reaped"
    /\ ~pidReused
    /\ platform = "posix" => ~(configured /\ desc = "alive")
    /\ pidReused' = TRUE
    /\ stranger' = "alive"
    /\ UNCHANGED <<platform, configured, callerAlive, killLog>>
    /\ UNCHANGED <<orchVars, pipeVars, procVars>>

\* cmd.Process != nil (part_000:18, platform_windows.go:18)
ProcessSet == child # "none"

\* some process has the pid stored in cmd.Process.Pid
PidExists ==
    child \in {"running", "zombie"} \/ (pidReused /\ stranger = "alive")

\* what one returned Kill call is remembered by: the state of the process
\* when it was called, the branch taken, whether an error was returned,
\* the processes of the original tree that can still run on return, and
\* on the fallback branch what cmd.Process.Kill() returned
KillEntry(path, err, after) ==
    [at |-> child, path |-> path, err |-> err, after |-> after,
     fb |-> "none"]

\* os.Process.Kill() as called at part_000:26: os.ErrProcessDone once Wait
\* has reaped the process, otherwise SIGKILL is sent to that one process
\* (a zombie takes it without effect) and nil is returned
ProcessKill ==
    [err |-> IF child = "reaped" THEN "ErrProcessDone" ELSE "nil",
     child |-> IF child = "running" THEN "zombie" ELSE child,
     exitStatus |-> IF child = "running" THEN "killed" ELSE exitStatus]

\* the fallback returning the error of Getpgid instead of that of
\* cmd.Process.Kill()
PosixFallback_GetpgidErr ==
    /\ child' = ProcessKill.child
    /\ exitStatus' = ProcessKill.exitStatus
    /\ killLog' = Append(killLog,
                         [at |-> child, path |-> "fallback", err |-> TRUE,
                          after |-> IF desc = "alive" THEN {"desc"} ELSE {},
                          fb |-> ProcessKill.err])
    /\ UNCHANGED <<desc, stranger, callerAlive>>

\* part_000:23-27: Getpgid failed; the error is logged and what
\* cmd.Process.Kill() returns is returned
PosixFallback ==
    /\ child' = ProcessKill.child
    /\ exitStatus' = ProcessKill.exitStatus
    /\ killLog' = Append(killLog,
                         [at |-> child, path |-> "fallback",
                          err |-> ProcessKill.err # "nil",
                          after |-> IF desc = "alive" THEN {"desc"} ELSE {},
                          fb |-> ProcessKill.err])
    /\ UNCHANGED <<desc, stranger, callerAlive>>

\* the tree after SIGKILL has reached the group Configure made
TreeAfterGroupKill ==
    [child |-> IF child = "running" THEN "zombie" ELSE child,
     exitStatus |-> IF child = "running" THEN "killed" ELSE exitStatus,
     desc |-> IF desc = "alive" THEN "gone" ELSE desc]

\* part_000:17-30, platformKill on POSIX.
\*  :18-20  no process: nil.
\*  :22     Getpgid(pid) fails when no process has that pid (ESRCH); some
\*          process has it while the child runs or is not yet reaped, and
\*          when the pid was given to another process afterwards.  It may
\*          also fail for an existing process (EPERM, where the system
\*          does not let the caller see that process's group).
\*  :23-27  it failed: PosixFallback.
\*  :29     Kill(-pgid, SIGKILL): every process of that group dies.  The
\*          group is the child's own when Configure was called, otherwise
\*          the client's own group, the client included (the call does not
\*          return then); after pid reuse it is the unrelated process's.
PosixKill ==
    IF ~ProcessSet
    THEN /\ killLog' = Append(killLog, KillEntry("nil", FALSE, {}))
         /\ UNCHANGED <<child, exitStatus, desc, stranger, callerAlive>>
    ELSE \E resolved \in IF PidExists THEN BOOLEAN ELSE {FALSE} :
        IF ~resolved
        THEN PosixFallback
        ELSE IF child = "reaped"
        THEN /\ stranger' = "dead"
             /\ killLog' = Append(killLog,
                                  KillEntry("group", FALSE, TreeRunnable))
             /\ UNCHANGED <<child, exitStatus, desc, callerAlive>>
        ELSE IF configured
        THEN /\ child' = TreeAfterGroupKill.child
             /\ exitStatus' = TreeAfterGroupKill.exitStatus
             /\ desc' = TreeAfterGroupKill.desc
             /\ killLog' = Append(killLog, KillEntry("group", FALSE, {}))
             /\ UNCHANGED <<stranger, callerAlive>>
        ELSE /\ child' = TreeAfterGroupKill.child
             /\ exitStatus' = TreeAfterGroupKill.exitStatus
             /\ desc' = TreeAfterGroupKill.desc
             /\ callerAlive' = FALSE
             /\ UNCHANGED <<stranger, killLog>>

\* platform_windows.go:17-27, platformKill on Windows.
\*  :18-20  no process: nil.
\*  :23-26  TASKKILL /T /PID <pid>, without /F: kill.Run() fails when no
\*          running process has the pid (exit status 128) or when the
\*          process can only be ended forcefully; when it succeeds a close
\*          request has been sent and the processes run on until they
\*          choose to exit.
WindowsKill ==
    /\ IF ~ProcessSet
       THEN killLog' = Append(killLog, KillEntry("nil", FALSE, {}))
       ELSE IF child = "running" \/ (pidReused /\ stranger = "alive")
       THEN \E sent \in BOOLEAN :
               killLog' = Append(killLog,
                                 KillEntry("taskkill", ~sent, TreeRunnable))
       ELSE killLog' = Append(killLog, KillEntry("taskkill", TRUE, TreeRunnable))
    /\ UNCHANGED <<child, exitStatus, desc, stranger, callerAlive>>

\* cmdgroup.Kill (platform_windows.go:41-43) -> platformKill of the build
Kill ==
    /\ callerAlive
    /\ Len(killLog) < MaxKills
    /\ IF platform = "posix" THEN PosixKill ELSE WindowsKill
    /\ UNCHANGED <<platform, configured, pidReused, nWritten, nErrWritten>>
    /\ UNCHANGED <<orchVars, pipeVars>>

KillNext ==
    \/ Configure
    \/ ClientStart
    \/ ClientWait
    \/ ProcFork
    \/ ProcExit
    \/ DescExit
    \/ PidReuse
    \/ Kill

KillSpec == KillInit /\ [][KillNext]_vars

(* ------------------------------ claims ------------------------------- *)
\* TranscodeSegments has handed the caller a channel and no error
RunStarted == pcMain = "returned" /\ ret.ch /\ ~ret.err

\* C1: in every reachable state the values the caller has received from
\* the channel are a prefix of the lines the encoder has written to its
\* stdout: in order, none twice, and no value the encoder did not write.
C1_ReceivedIsPrefixOfWritten ==
    IsPrefix(received, WrittenLines(nWritten))

\* C2: when the encoder has started, written its lines and exited by
\* itself, and the channel has been closed and drained by the caller, the
\* caller has received exactly the lines written, whatever the
\* interleaving of the stdout reader with cmd.Wait.
C2_AllLinesBeforeClose ==
    (RunStarted /\ exitStatus \in {"ok", "fail"} /\ chanClosed /\ chan = <<>>)
        => received = WrittenLines(nWritten)

\* C3: the channel is closed only after the stdout reader and the stderr
\* reader have stopped reading (Scan returned false) and cmd.Wait has
\* returned: "closed" is never reached while a drain task still reads.
C3_CloseAfterDrains ==
    chanClosed =>
        /\ pcOut = "done"
        /\ scanErr # "none"
        /\ pcErr = "done"
        /\ pcWait = "done"
        /\ wg = 0

\* C3 witness: a started run whose channel was closed after both readers
\* consumed output of the encoder
C3_Witness ==
    /\ RunStarted
    /\ chanClosed
    /\ nWritten = MaxLines
    /\ nErrWritten = MaxErrLines
    /\ received = WrittenLines(nWritten)

\* C7: when starting fails (pipe setup or spawn) TranscodeSegments returns
\* the error and no channel is created or returned to the caller.
C7_NoChannelOnStartFailure ==
    (pcMain = "returned" /\ ret.err) => (~ret.ch /\ ~chanMade)

\* C8: with fewer than 2 segment times TranscodeSegments returns an error
\* and a nil channel, and no probe process, encoder process or background
\* task is ever started.
C8_ConfigErrorStartsNothing ==
    nSegTimes < 2 =>
        /\ pcMain \in {"check", "returned"}
        /\ pcMain = "returned" => (ret.err /\ ~ret.ch)
        /\ probeRuns = 0
        /\ child = "none"
        /\ ~chanMade
        /\ pcOut = "idle" /\ pcErr = "idle" /\ pcWait = "idle"

\* C8 witness: the call has returned for a config with one segment time
C8_Witness ==
    /\ nSegTimes = 1
    /\ hasVideo
    /\ pcMain = "returned"
    /\ ret.err

\* the caller cancelled ctx while the encoder was running
CancelledMidRun == cancelled /\ child = "running"

\* C4: after the caller cancels the context while the encoder is running,
\* eventually no process of the encoder's tree (the direct child and its
\* descendants) is still alive.
C4_CancelKillsWholeTree ==
    CancelledMidRun ~> (TreeRunnable = {})

\* C5: after the caller cancels the context while the encoder is running,
\* and the caller keeps receiving, both stream readers eventually stop
\* reading and the channel is eventually closed.
C5_CancelClosesChannel ==
    CancelledMidRun ~> (pcOut = "done" /\ pcErr = "done" /\ chanClosed)

\* C5 witness: ctx was cancelled mid-run, the child was killed for it, and
\* the channel got closed with both readers finished
C5_Witness ==
    /\ cancelled
    /\ exitStatus = "killed"
    /\ desc = "alive"
    /\ pcOut = "done"
    /\ pcErr = "done"
    /\ chanClosed

\* C6: whenever the encoder was started and later exits by itself, with
\* status zero or non-zero, and the caller keeps receiving, the channel is
\* eventually closed.
C6_ExitClosesChannel ==
    (exitStatus \in {"ok", "fail"}) ~> chanClosed

\* C6 witness: a run that failed without writing anything has its (empty)
\* channel closed
C6_Witness ==
    /\ exitStatus = "fail"
    /\ nWritten = 0
    /\ chanClosed
    /\ received = <<>>

\* C9: Kill returns no error when called on a command whose process never
\* started and when called on a process that has already exited, waited on
\* or not (which is also what a second Kill in succession finds on POSIX),
\* on both platform variants.
C9_KillIdempotentNoError ==
    \A i \in 1..Len(killLog) :
        killLog[i].at \in {"none", "zombie", "reaped"} => ~killLog[i].err

\* C10: for a process prepared with Configure before it started, after
\* Kill returns without error through the group path (the group signal on
\* POSIX, the tree-kill utility on Windows), no process of the original
\* tree remains runnable.
C10_GroupKillLeavesNoTree ==
    \A i \in 1..Len(killLog) :
        (/\ configured
         /\ killLog[i].path \in {"group", "taskkill"}
         /\ ~killLog[i].err)
            => killLog[i].after = {}

\* C16: a Kill of a command whose process has exited and been waited on
\* delivers a signal to no process at all, also when the process id (and so
\* the group id looked up from it) has meanwhile been given to another
\* process: the unrelated process that got the id is never killed.
C16_KillAfterReapSignalsNobody == stranger # "dead"

\* C17: on POSIX, a Kill whose group lookup failed ends at most the direct
\* process (a descendant, an unrelated process and the caller are left
\* alone) and returns what cmd.Process.Kill() returned, nil or its error;
\* the lookup's own error is never what is returned.
C17_FallbackOutcomeReturned ==
    [][(/\ Len(killLog') = Len(killLog) + 1
        /\ killLog'[Len(killLog')].path = "fallback")
          => /\ platform = "posix"
             /\ desc' = desc
             /\ stranger' = stranger
             /\ callerAlive'
             /\ child' = IF child = "running" THEN "zombie" ELSE child
             /\ killLog'[Len(killLog')].fb \in {"nil", "ErrProcessDone"}
             /\ killLog'[Len(killLog')].err
                   <=> killLog'[Len(killLog')].fb # "nil"]_vars

\* C17 witness: a fallback Kill of the running process has returned nil
\* and the descendant is still alive
C17_Witness ==
    /\ desc = "alive"
    /\ child = "zombie"
    /\ \E i \in 1..Len(killLog) :
          /\ killLog[i].path = "fallback"
          /\ killLog[i].at = "running"
          /\ ~killLog[i].err

\* the three goroutines of TranscodeSegments have all returned
TasksDone == pcOut = "done" /\ pcErr = "done" /\ pcWait = "done"

\* C18: once the goroutines are started, if the caller cancels ctx and from
\* then on no longer receives, the stdout reader, the stderr reader and the
\* cmd.Wait goroutine all return eventually and the channel is closed, also
\* when the stdout reader was blocked sending into the full channel.
C18_AbandonedChannelStillCloses ==
    (cancelled /\ pcOut # "idle") ~> (TasksDone /\ chanClosed)

\* the WaitGroup counter is 2 minus the wg.Done() calls made so far, the
\* channel is only closed by the finished sender with the counter at zero
BarrierState ==
    /\ wg \in 0..WgInit
    /\ chanMade =>
          wg = WgInit - (IF pcErr = "done" THEN 1 ELSE 0)
                      - (IF pcWait = "done" THEN 1 ELSE 0)
    /\ chanClosed => (pcOut = "done" /\ tok = <<>> /\ wg = 0)

\* a step puts a value into the channel only as the stdout goroutine's
\* send on the open channel; closes it only as that goroutine's deferred
\* close; a closed channel stays closed and only loses values; the counter
\* only moves down by one, by a reader or the cmd.Wait goroutine returning
BarrierStep ==
    /\ Len(chan') > Len(chan) =>
          (pcOut = "send" /\ ~chanClosed /\ chan' = Append(chan, tok))
    /\ (chanClosed' /\ ~chanClosed) => (pcOut = "wgWait" /\ pcOut' = "done")
    /\ chanClosed =>
          /\ chanClosed'
          /\ chan' = chan \/ (chan # <<>> /\ chan' = Tail(chan))
    /\ (chanMade /\ wg' # wg) =>
          /\ wg' = wg - 1
          /\ \/ (pcErr # "done" /\ pcErr' = "done" /\ pcWait' = pcWait)
             \/ (pcWait # "done" /\ pcWait' = "done" /\ pcErr' = pcErr)

\* C19: the channel is closed at most once and nothing is sent after the
\* close: its only sender, the stdout goroutine, is its only closer and
\* closes after its last send; the barrier counter starts at 2, is
\* decremented once by the stderr reader and once by the cmd.Wait
\* goroutine and never goes below zero, also when cmd.Start failed.
C19_SingleCloseAndBarrier == []BarrierState /\ [][BarrierStep]_vars

\* C19 witness: cmd.Start failed, both decrements were made and the
\* channel was closed by the finished sender
C19_Witness ==
    /\ startErr
    /\ wg = 0
    /\ pcErr = "done"
    /\ pcWait = "done"
    /\ pcOut = "done"
    /\ chanClosed

\* C20: when cmd.Start fails, the stdout reader, the stderr reader and the
\* cmd.Wait goroutine all return and the channel that is returned together
\* with the error is eventually closed.
C20_StartFailureClosesChannel == startErr ~> (TasksDone /\ chanClosed)

\* C20 witness: the call returned the channel together with the start
\* error, and the channel has been closed with nothing in it
C20_Witness ==
    /\ pcMain = "returned"
    /\ ret.ch
    /\ ret.err
    /\ startErr
    /\ TasksDone
    /\ chanClosed
    /\ received = <<>>

(* ------------------ the argument vector (C11 - C15) ------------------ *)
(* BuildSpec: TranscodeSegments up to exec.CommandContext, over a wide     *)
(* range of configs and probe results.  Segment times: a negative one, 0,  *)
(* two thirds of a microsecond, and two seconds.                           *)
TimeValues == {-1, 0, 2, 6000000}
SeqsUpTo(S, n) == UNION {[1..k -> S] : k \in 0..n}

BuildInit ==
    /\ SegmentTimes \in SeqsUpTo(TimeValues, MaxTimes)
    /\ nSegTimes = Len(SegmentTimes)
    /\ hasVideo \in BOOLEAN
    /\ VideoProfile \in IF hasVideo
                        THEN [Width : 1..MaxDim, Height : 1..MaxDim,
                              Bitrate : {2500}]
                        ELSE {NoProfile}
    /\ hasAudio \in BOOLEAN
    /\ AudioProfile = [Bitrate |-> IF hasAudio THEN 128 ELSE 0]
    /\ SegmentOffset = 7
    /\ probe \in IF hasVideo
                 THEN ProbeFailures
                      \cup {ProbeOk(<<f>>) : f \in Formats422 \cup OtherFormats}
                      \cup {ProbeOk(<<"yuv420p", "yuv422p">>),
                            ProbeOk(<<"yuv422p", "yuv420p">>)}
                 ELSE {ProbeNoStreams}
    /\ pcMain = "check"
    /\ ret = [ch |-> FALSE, err |-> FALSE]
    /\ probeRuns = 0
    /\ args = <<>>
    /\ startErr = FALSE
    /\ chanMade = FALSE
    /\ chan = <<>>
    /\ chanClosed = FALSE
    /\ wg = 0
    /\ pcOut = "idle"
    /\ tok = <<>>
    /\ buf = <<>>
    /\ scanErr = "none"
    /\ pcErr = "idle"
    /\ pcWait = "idle"
    /\ cancelled = FALSE
    /\ received = <<>>
    /\ ProcIdle
    /\ KillIdle

BuildNext == CheckConfig \/ BuildArgs

BuildSpec == BuildInit /\ [][BuildNext]_vars

\* the scale filter of the built arguments pins the output height to the
\* requested Height / the output width to the requested Width
FixesHeight ==
    ValueOf(args, "-vf") = Text("scale=-2:") \o Sprintfd(VideoProfile.Height)
FixesWidth ==
    ValueOf(args, "-vf")
        = Text("scale=") \o Sprintfd(VideoProfile.Width) \o Text(":-2")

\* config.VideoProfile != nil and detectVideoFormat returns an error
ProbeFailed == hasVideo /\ detectVideoFormat(probe).err # "nil"

\* C11: with a video profile, when the probe fails for whatever reason
\* (ffprobe cannot be run, its output cannot be parsed, it lists no video
\* stream) the step that runs the probe returns nothing to the caller: it
\* leaves the return value alone, builds the arguments with the standard
\* profile "high" and goes on to the pipe setup and the start of ffmpeg.
C11_ProbeFailureOnlyLogged ==
    [][(pcMain = "build" /\ pcMain' # "build" /\ ProbeFailed) =>
          /\ pcMain' = "stdoutPipe"
          /\ ret' = ret
          /\ probeRuns' = probeRuns + 1
          /\ ValueOf(args', "-profile:v") = Text("high")]_vars

\* C11 witness: the probe could not parse ffprobe's output and the encoder
\* is running with the "high" profile
C11_Witness ==
    /\ hasVideo
    /\ probe = ProbeParseError
    /\ child = "running"
    /\ ~ret.err
    /\ ValueOf(args, "-profile:v") = Text("high")

\* C12 as stated: the scale filter fixes the larger of the requested Width
\* and Height (either one when they are equal) and derives the other.
C12_ScaleFixesLarger ==
    (args # <<>> /\ hasVideo) =>
        /\ VideoProfile.Width > VideoProfile.Height => FixesWidth
        /\ VideoProfile.Height > VideoProfile.Width => FixesHeight
        /\ VideoProfile.Width = VideoProfile.Height
              => (FixesWidth \/ FixesHeight)

\* C12 amended: there is one scale filter; it fixes the requested Height
\* when Width >= Height and the requested Width when Width < Height, that
\* is the smaller of the two requested values (Height on a tie), and the
\* other dimension is the derived -2.
C12_ScaleFixesSmaller ==
    (args # <<>> /\ hasVideo) =>
        /\ Cardinality(PositionsOf(args, "-vf")) = 1
        /\ VideoProfile.Width >= VideoProfile.Height => FixesHeight
        /\ VideoProfile.Width < VideoProfile.Height => FixesWidth

\* C12 witness: a portrait profile, built with the width fixed
C12_Witness ==
    /\ args # <<>>
    /\ hasVideo
    /\ VideoProfile.Width < VideoProfile.Height
    /\ FixesWidth

\* C13: for a boundary list of length >= 2, a first boundary of 0 gives no
\* -ss in the arguments; a first boundary > 0 gives exactly one -ss, its
\* value is that boundary formatted with %.6f, and it stands before -i.
C13_SeekOnlyForPositiveStart ==
    args # <<>> =>
        /\ SegmentTimes[1] = 0 => PositionsOf(args, "-ss") = {}
        /\ SegmentTimes[1] > 0 =>
              /\ Cardinality(PositionsOf(args, "-ss")) = 1
              /\ PositionsOf(args, "-i") # {}
              /\ \A i \in PositionsOf(args, "-ss") :
                    /\ args[i + 1] = Sprintf6f(SegmentTimes[1])
                    /\ \A j \in PositionsOf(args, "-i") : i < j

\* C13 witness: a first boundary of two thirds of a microsecond is sought
\* as 0.000001, right after the log level
C13_Witness ==
    /\ args # <<>>
    /\ SegmentTimes[1] = 2
    /\ args[3] = Text("-ss")
    /\ args[4] = Num("%.6f", 1)
    /\ args[5] = Text("-i")

\* C14: for a boundary list of length >= 2, -force_key_frames and
\* -segment_times get the same string, and that string is the boundaries
\* from the second one on, each formatted with %.6f, in input order, with
\* a comma between neighbours.
C14_KeyframesEqualSplitTimes ==
    args # <<>> =>
        LET v == ValueOf(args, "-force_key_frames")
            n == Len(SegmentTimes)
        IN  /\ v = ValueOf(args, "-segment_times")
            /\ Len(v) = 2 * (n - 1) - 1
            /\ \A k \in 1..(n - 1) :
                  <<v[2 * k - 1]>> = Sprintf6f(SegmentTimes[k + 1])
            /\ \A k \in 1..(n - 2) : <<v[2 * k]>> = Text(",")

\* C14 witness: three boundaries, the last two different, joined in order
C14_Witness ==
    /\ args # <<>>
    /\ Len(SegmentTimes) = 3
    /\ SegmentTimes[2] > SegmentTimes[3]
    /\ ValueOf(args, "-segment_times")
          = Sprintf6f(SegmentTimes[2]) \o Text(",")
              \o Sprintf6f(SegmentTimes[3])

\* C15: with a video profile, -profile:v is high422 exactly when the probe
\* succeeded and the pixel format of its first stream is one of the listed
\* 4:2:2 formats; for every other probe result (a failure, any other
\* format, the empty string) it is high.
C15_High422IffListedFormat ==
    (args # <<>> /\ hasVideo) =>
        /\ ValueOf(args, "-profile:v") \in {Text("high"), Text("high422")}
        /\ ValueOf(args, "-profile:v") = Text("high422")
              <=> /\ probe.runOk
                  /\ probe.jsonOk
                  /\ probe.streams # <<>>
                  /\ probe.streams[1] \in Formats422

\* C15 witness: a 10-bit 4:2:2 input is built with high422
C15_Witness ==
    /\ args # <<>>
    /\ hasVideo
    /\ probe = ProbeOk(<<"yuv422p10le">>)
    /\ ValueOf(args, "-profile:v") = Text("high422")

====
